---------------------------- MODULE Spec2Model ----------------------------
(***************************************************************************)
(* Product CRUD service (FastAPI + SQLAlchemy ORM over one MySQL table).   *)
(*                                                                         *)
(* State: the `product` table, the startup routine init_db, and a fixed    *)
(* number of request slots, each running one handler of main.py with the   *)
(* session that get_db hands it.                                           *)
(*                                                                         *)
(* Granularity: one action per storage round trip.  A handler that looks a *)
(* row up and then commits (update, delete) takes two steps, so that other *)
(* requests can commit in between; Session.commit() (flush + COMMIT) is    *)
(* one step.  init_db runs at import time, before any request is served.   *)
(*                                                                         *)
(* Prices are written in tenths of a unit (54000.3 is 540003): the model   *)
(* only compares and copies them.  Field values are drawn from values that *)
(* fit their columns (String(255), Float, Integer).                        *)
(***************************************************************************)
EXTENDS Integers, FiniteSets, Sequences, TLC

VARIABLES table,   \* the rows of the product table (committed state)
          boot,    \* the startup routine init_db and its session
          sess     \* request slot -> the request it runs and its session

vars == <<table, boot, sess>>

\* Number of requests that can be in flight at once.
MaxReqs == 2
\* Ids that requests put in the URL path: 1..MaxId.
MaxId == 2

Reqs == 1..MaxReqs
PathIds == 1..MaxId

-----------------------------------------------------------------------------
(* Data *)

\* Python's None: no row loaded, no body, no result.
None == [none |-> TRUE]

\* models.Product / db_models.Product: the five fields.
Product(i, n, d, p, q) ==
    [id |-> i, name |-> n, description |-> d, price |-> p, quantity |-> q]

\* The rows init_db seeds, in the order of the list.
sample_products ==
    << Product(1, "phone", "samsung", 540003, 15),
       Product(4, "Laptop", "samsung", 7400000, 5),
       Product(3, "Charger", "Mobile Charger", 520, 32) >>

\* Request bodies that clients send (validated models.Product values).
Bodies ==
    { Product(2, "Mouse", "wireless", 200, 100),
      Product(1, "Phone Pro", "samsung", 540003, 15) }

\* db_models.Product(**product.model_dump()): the ORM row built from the
\* dictionary of a validated body, keyword by keyword.
ToRow(product) ==
    [id          |-> product["id"],
     name        |-> product["name"],
     description |-> product["description"],
     price       |-> product["price"],
     quantity    |-> product["quantity"]]

-----------------------------------------------------------------------------
(* Storage: the product table with its primary key *)

RowsWithId(t, id) == {x \in t : x.id = id}

\* Mutant: the query without its filter.
FindByIdUnfiltered(t, id) ==
    IF t = {} THEN None ELSE CHOOSE x \in t : TRUE

\* query(Product).filter(Product.id == id).first(): a row or None.
FindById(t, id) ==
    IF RowsWithId(t, id) = {} THEN None ELSE CHOOSE x \in RowsWithId(t, id) : TRUE

\* query(Product).count()
Count(t) == Cardinality(t)

\* Mutant: the id column without its primary key.
PrimaryKeyNotEnforced(t, row) == TRUE

\* The primary key on id: an INSERT is accepted only if no row has the id.
PrimaryKeyFree(t, row) == RowsWithId(t, row.id) = {}

\* INSERT of one row (the caller has checked the primary key).
InsertRow(t, row) == t \cup {row}

\* The columns the handler assigns whose new value differs from the loaded
\* one.  The ORM's flush compares each assigned attribute to the value it
\* loaded and puts only those with a net change in the UPDATE's SET clause.
ChangedCols(loaded, product) ==
    {c \in {"name", "description", "price", "quantity"} : product[c] # loaded[c]}

\* Mutant: the assignment of quantity left out.
UpdateRowNoQuantity(t, loaded, product) ==
    LET ch == ChangedCols(loaded, product)
    IN  { IF x.id = loaded.id
            THEN [x EXCEPT
                    !.name        = IF "name" \in ch THEN product.name ELSE @,
                    !.description = IF "description" \in ch THEN product.description ELSE @,
                    !.price       = IF "price" \in ch THEN product.price ELSE @]
            ELSE x : x \in t }

\* Mutant: the id assigned from the body as well.
UpdateRowWithId(t, loaded, product) ==
    LET ch == ChangedCols(loaded, product)
    IN  { IF x.id = loaded.id
            THEN [x EXCEPT
                    !.id          = product.id,
                    !.name        = IF "name" \in ch THEN product.name ELSE @,
                    !.description = IF "description" \in ch THEN product.description ELSE @,
                    !.price       = IF "price" \in ch THEN product.price ELSE @,
                    !.quantity    = IF "quantity" \in ch THEN product.quantity ELSE @]
            ELSE x : x \in t }

\* UPDATE product SET <changed columns> WHERE id = <loaded.id>.
UpdateRow(t, loaded, product) ==
    LET ch == ChangedCols(loaded, product)
    IN  { IF x.id = loaded.id
            THEN [x EXCEPT
                    !.name        = IF "name" \in ch THEN product.name ELSE @,
                    !.description = IF "description" \in ch THEN product.description ELSE @,
                    !.price       = IF "price" \in ch THEN product.price ELSE @,
                    !.quantity    = IF "quantity" \in ch THEN product.quantity ELSE @]
            ELSE x : x \in t }

\* Mutant: the delete never reaches the table.
DeleteRowNotSent(t, loaded) == t

\* DELETE FROM product WHERE id = <loaded.id>.
DeleteRow(t, loaded) == t \ RowsWithId(t, loaded.id)

-----------------------------------------------------------------------------
(* Responses *)

\* f'Product with id {id} not found, please verify the id, or try by name.'
GetNotFound(id) == [msg |-> "Product with id {id} not found", id |-> id]
\* f"Information for product id: {id} and name: {product.name} updated"
UpdateOk(id, name) ==
    [msg |-> "Information for product id: {id} and name: {name} updated",
     id |-> id, name |-> name]
\* f"No product with id {id} found"
UpdateNotFound(id) == [msg |-> "No product with id {id} found", id |-> id]
\* f"Product with id {id} deleted successfully."
DeleteOk(id) == [msg |-> "Product with id {id} deleted successfully.", id |-> id]
\* f"Product Not found, please check the {id} again"
DeleteNotFound(id) == [msg |-> "Product Not found, please check the {id} again", id |-> id]
\* Unhandled storage errors, which the framework turns into a server error.
IntegrityError == [error |-> "IntegrityError"]
StaleDataError == [error |-> "StaleDataError"]

-----------------------------------------------------------------------------
(* Sessions *)

IdleSess ==
    [op |-> "none", pc |-> "idle", id |-> 0, body |-> None, loaded |-> None,
     result |-> None, exit |-> "none", open |-> FALSE]

\* db = session(); yield db: the handler starts with a fresh open session.
OpenSess(op, id, body) ==
    [op |-> op, pc |-> "run", id |-> id, body |-> body, loaded |-> None,
     result |-> None, exit |-> "none", open |-> TRUE]

\* The handler returns `result`.
Return(s, result) == [s EXCEPT !.pc = "returned", !.result = result]
\* Mutant: the handler catches the error and echoes the body.
RaiseSwallowed(s, err) == [s EXCEPT !.pc = "returned", !.result = s.body]
\* The handler raises `err`.
Raise(s, err) == [s EXCEPT !.pc = "raised", !.result = err]

\* Mutant: db.close() after the yield without try/finally, so that a raise
\* skips it.
CloseSessionNoFinally(s) ==
    [op |-> s.op, pc |-> "finished", id |-> 0, body |-> None, loaded |-> None,
     result |-> None, exit |-> s.pc, open |-> (s.pc = "raised")]

\* get_db's finally: db.close(), on a return and on a raise alike.
CloseSession(s) ==
    [op |-> s.op, pc |-> "finished", id |-> 0, body |-> None, loaded |-> None,
     result |-> None, exit |-> s.pc, open |-> FALSE]

\* A slot can take a new request.
Free(r) == sess[r].pc \in {"idle", "finished"}
Serving == boot.pc = "done"

-----------------------------------------------------------------------------
(* Startup: init_db *)

\* The process has started and main.py is being imported; init_db has not run.
BootStart ==
    [pc |-> "import", open |-> FALSE, existing_count |-> 0,
     added |-> <<>>, flushed |-> {}]

Init ==
    /\ table = {}
    /\ boot = BootStart
    /\ sess = [r \in Reqs |-> IdleSess]

\* Mutant: the test written existing_count >= 0.
SkipSeedingAlways(existing_count) == existing_count >= 0

\* existing_count > 0 is the test that skips the seeding.
SkipSeeding(existing_count) == existing_count > 0

\* db = session()
InitOpen ==
    /\ boot.pc = "import"
    /\ boot' = [boot EXCEPT !.pc = "count", !.open = TRUE]
    /\ UNCHANGED <<table, sess>>

\* existing_count = db.query(Product).count(); if it is positive: db.close()
\* and return (the finally clause closes once more).
InitCount ==
    /\ boot.pc = "count"
    /\ LET n == Count(table)
       IN  boot' = IF SkipSeeding(n)
                     THEN [boot EXCEPT !.pc = "done", !.existing_count = n, !.open = FALSE]
                     ELSE [boot EXCEPT !.pc = "add", !.existing_count = n]
    /\ UNCHANGED <<table, sess>>

\* One turn of the loop: db.add(Product(**product_data)).  The row is pending
\* in the session; nothing is sent to the database.
InitAdd ==
    /\ boot.pc = "add"
    /\ LET k == Len(boot.added) + 1
           added == Append(boot.added, ToRow(sample_products[k]))
       IN  boot' = [boot EXCEPT !.added = added,
                                !.pc = IF k = Len(sample_products) THEN "flush" ELSE "add"]
    /\ UNCHANGED <<table, sess>>

\* Mutant: a session made with autocommit, each INSERT committed as it is sent.
InitFlushAutocommit ==
    /\ boot.pc = "flush"
    /\ LET k == Cardinality(boot.flushed) + 1
           row == boot.added[k]
       IN  IF PrimaryKeyFree(table, row)
             THEN /\ table' = InsertRow(table, row)
                  /\ boot' = [boot EXCEPT !.flushed = InsertRow(@, row),
                                          !.pc = IF k = Len(boot.added) THEN "commit" ELSE "flush"]
             ELSE /\ table' = table
                  /\ boot' = [boot EXCEPT !.pc = "except"]
    /\ UNCHANGED sess

\* db.commit(), first half: the flush sends one INSERT per pending row inside
\* the session's transaction.  A duplicate key raises into the except clause.
InitFlush ==
    /\ boot.pc = "flush"
    /\ LET k == Cardinality(boot.flushed) + 1
           row == boot.added[k]
       IN  boot' = IF PrimaryKeyFree(table \cup boot.flushed, row)
                     THEN [boot EXCEPT !.flushed = InsertRow(@, row),
                                       !.pc = IF k = Len(boot.added) THEN "commit" ELSE "flush"]
                     ELSE [boot EXCEPT !.pc = "except"]
    /\ UNCHANGED <<table, sess>>

\* db.commit(), second half: COMMIT makes the inserted rows part of the table.
InitCommit ==
    /\ boot.pc = "commit"
    /\ table' = table \cup boot.flushed
    /\ boot' = [boot EXCEPT !.pc = "finally", !.flushed = {}]
    /\ UNCHANGED sess

\* finally: db.close()
InitFinally ==
    /\ boot.pc = "finally"
    /\ boot' = [boot EXCEPT !.pc = "done", !.open = FALSE]
    /\ UNCHANGED <<table, sess>>

\* The process is stopped and started again on the same database: requests in
\* flight are lost with their sessions, the table stays.
Restart ==
    /\ Serving
    /\ boot' = BootStart
    /\ sess' = [r \in Reqs |-> IdleSess]
    /\ UNCHANGED table

-----------------------------------------------------------------------------
(* Request handlers *)

\* GET /products: get_all_products
GetAllProducts(r) ==
    /\ Serving /\ Free(r)
    /\ sess' = [sess EXCEPT ![r] = Return(OpenSess("list", 0, None), table)]
    /\ UNCHANGED <<table, boot>>

\* GET /products/id/{id}: get_product_by_id
GetProductById(r, id) ==
    /\ Serving /\ Free(r)
    /\ LET db_product == FindById(table, id)
       IN  sess' = [sess EXCEPT ![r] =
                      Return(OpenSess("get", id, None),
                             IF db_product # None THEN db_product ELSE GetNotFound(id))]
    /\ UNCHANGED <<table, boot>>

\* Mutant: the row stored under the path id.
NewRowPathId(id, product) == [ToRow(product) EXCEPT !.id = id]

\* The row add_product stores for a request POST /products/{id} with body
\* `product`: the path id is not a parameter of the handler.
NewRow(id, product) == ToRow(product)

\* POST /products/{id}: add_product.  db.add(...) then db.commit(): the
\* INSERT and the COMMIT; a duplicate key raises IntegrityError out of the
\* handler.
AddProduct(r, id, product) ==
    /\ Serving /\ Free(r)
    /\ LET s == OpenSess("create", id, product)
           row == NewRow(id, product)
       IN  IF PrimaryKeyFree(table, row)
             THEN /\ table' = InsertRow(table, row)
                  /\ sess' = [sess EXCEPT ![r] = Return(s, product)]
             ELSE /\ table' = table
                  /\ sess' = [sess EXCEPT ![r] = Raise(s, IntegrityError)]
    /\ UNCHANGED boot

\* PUT /products/{id}: update_product, the lookup.
UpdateLookup(r, id, product) ==
    /\ Serving /\ Free(r)
    /\ LET s == OpenSess("update", id, product)
           db_product == FindById(table, id)
       IN  sess' = [sess EXCEPT ![r] =
                      IF db_product # None
                        THEN [s EXCEPT !.pc = "found", !.loaded = db_product]
                        ELSE Return(s, UpdateNotFound(id))]
    /\ UNCHANGED <<table, boot>>

\* update_product, the four assignments and db.commit().  With no net change
\* nothing is sent; an UPDATE that matches no row raises StaleDataError.
UpdateCommit(r) ==
    /\ Serving
    /\ sess[r].op = "update" /\ sess[r].pc = "found"
    /\ LET s == sess[r]
       IN  IF ChangedCols(s.loaded, s.body) # {} /\ RowsWithId(table, s.loaded.id) = {}
             THEN /\ table' = table
                  /\ sess' = [sess EXCEPT ![r] = Raise(s, StaleDataError)]
             ELSE /\ table' = UpdateRow(table, s.loaded, s.body)
                  /\ sess' = [sess EXCEPT ![r] = Return(s, UpdateOk(s.id, s.body.name))]
    /\ UNCHANGED boot

\* DELETE /products/del_id/{id}: delete_product_from_id, the lookup.
DeleteLookup(r, id) ==
    /\ Serving /\ Free(r)
    /\ LET s == OpenSess("delete", id, None)
           db_product == FindById(table, id)
       IN  sess' = [sess EXCEPT ![r] =
                      IF db_product # None
                        THEN [s EXCEPT !.pc = "found", !.loaded = db_product]
                        ELSE Return(s, DeleteNotFound(id))]
    /\ UNCHANGED <<table, boot>>

\* delete_product_from_id, db.delete(db_product) and db.commit().  A DELETE
\* that matches no row only warns.
DeleteCommit(r) ==
    /\ Serving
    /\ sess[r].op = "delete" /\ sess[r].pc = "found"
    /\ table' = DeleteRow(table, sess[r].loaded)
    /\ sess' = [sess EXCEPT ![r] = Return(sess[r], DeleteOk(sess[r].id))]
    /\ UNCHANGED boot

\* The request ends: get_db resumes after its yield and closes the session.
Close(r) ==
    /\ Serving
    /\ sess[r].pc \in {"returned", "raised"}
    /\ sess' = [sess EXCEPT ![r] = CloseSession(sess[r])]
    /\ UNCHANGED <<table, boot>>

Next ==
    \/ InitOpen
    \/ InitCount
    \/ InitAdd
    \/ InitFlush
    \/ InitCommit
    \/ InitFinally
    \/ Restart
    \/ \E r \in Reqs : GetAllProducts(r)
    \/ \E r \in Reqs, id \in PathIds : GetProductById(r, id)
    \/ \E r \in Reqs, id \in PathIds, product \in Bodies : AddProduct(r, id, product)
    \/ \E r \in Reqs, id \in PathIds, product \in Bodies : UpdateLookup(r, id, product)
    \/ \E r \in Reqs : UpdateCommit(r)
    \/ \E r \in Reqs, id \in PathIds : DeleteLookup(r, id)
    \/ \E r \in Reqs : DeleteCommit(r)
    \/ \E r \in Reqs : Close(r)

Spec == Init /\ [][Next]_vars

-----------------------------------------------------------------------------
(* Startup with storage failures *)

\* The count, an add or the commit raises: control enters the except clause.
InitFail ==
    /\ boot.pc \in {"count", "add", "flush", "commit"}
    /\ boot' = [boot EXCEPT !.pc = "except"]
    /\ UNCHANGED <<table, sess>>

\* except Exception: print(...); db.rollback(): the transaction's INSERTs are
\* discarded.
InitExcept ==
    /\ boot.pc = "except"
    /\ boot' = [boot EXCEPT !.pc = "finally", !.flushed = {}]
    /\ UNCHANGED <<table, sess>>

\* db.commit() raises although the server has applied the COMMIT: the
\* connection is lost before the acknowledgement is read.  The outcome of a
\* COMMIT that fails is not known to the client; InitFail at "commit" is the
\* other outcome.
InitCommitLost ==
    /\ boot.pc = "commit"
    /\ table' = table \cup boot.flushed
    /\ boot' = [boot EXCEPT !.pc = "except"]
    /\ UNCHANGED sess

NextFault == Next \/ InitFail \/ InitCommitLost \/ InitExcept

SpecFault == Init /\ [][NextFault]_vars

-----------------------------------------------------------------------------
(* Steps of the handlers, as the properties below recognise them *)

\* Slot r starts a request of kind op (its first, or only, step).
Starts(r, op) == Free(r) /\ sess'[r].open /\ sess'[r].op = op
ListStep(r) == Starts(r, "list")
GetStep(r) == Starts(r, "get")
CreateStep(r) == Starts(r, "create")
UpdateLookupStep(r) == Starts(r, "update")
DeleteLookupStep(r) == Starts(r, "delete")
\* Slot r runs the commit of the update, or of the delete, it looked up.
UpdateCommitStep(r) ==
    sess[r].op = "update" /\ sess[r].pc = "found" /\ sess'[r].pc \in {"returned", "raised"}
DeleteCommitStep(r) ==
    sess[r].op = "delete" /\ sess[r].pc = "found" /\ sess'[r].pc \in {"returned", "raised"}

\* The three seed rows as a set.
SeedRows == {ToRow(sample_products[k]) : k \in 1..Len(sample_products)}
Ids(t) == {x.id : x \in t}

-----------------------------------------------------------------------------
(* C1 *)

\* C1: in every reachable state, whatever the order and interleaving of
\* seeding, creates, updates and deletes, the table holds at most one row
\* for each id.
C1_UniqueId == \A a, b \in table : a.id = b.id => a = b

\* A create with the id of a stored row has been attempted on the seeded table.
C1_Witness ==
    /\ SeedRows \subseteq table
    /\ \E r \in Reqs : sess[r].op = "create" /\ sess[r].result = IntegrityError

-----------------------------------------------------------------------------
(* C2 *)

\* C2: init_db goes on to seed exactly when its count finds the table empty;
\* its commit turns the empty table into the three seed rows (ids 1, 3, 4),
\* and a listing of that table returns exactly those rows; when the count
\* finds a row, init_db ends at once, and no step of init_db other than that
\* commit changes the table.
C2_SeedIffEmpty ==
    [][ /\ (boot.pc = "count" /\ boot'.pc # "count") =>
              /\ (boot'.pc = "add") <=> (table = {})
              /\ (boot'.pc = "done") <=> (table # {})
        /\ (boot.pc \notin {"done", "commit"}) => table' = table
        /\ (boot.pc = "commit") =>
              /\ table = {}
              /\ table' = SeedRows
              /\ Ids(table') = {1, 3, 4}
        /\ (boot.pc # "done" /\ boot'.pc = "done") =>
              IF boot'.existing_count = 0 THEN table' = SeedRows ELSE boot.pc = "count"
        /\ \A r \in Reqs : (ListStep(r) /\ table = SeedRows) =>
              /\ sess'[r].result = SeedRows
              /\ Ids(sess'[r].result) = {1, 3, 4}
      ]_vars

\* After a restart init_db has found the three seed rows and skipped, and a
\* listing has returned exactly them.
C2_Witness ==
    /\ boot.pc = "done" /\ boot.existing_count = 3
    /\ table = SeedRows
    /\ \E r \in Reqs : sess[r].op = "list" /\ sess[r].result = SeedRows

-----------------------------------------------------------------------------
(* C3 *)

\* C3: a create whose body id is the id of a stored row raises the storage
\* error instead of returning the body, and leaves the table as it was.
C3_DuplicateCreateFails ==
    [][ \A r \in Reqs :
          (CreateStep(r) /\ RowsWithId(table, sess'[r].body.id) # {}) =>
              /\ sess'[r].pc = "raised"
              /\ sess'[r].result = IntegrityError
              /\ sess'[r].result # sess'[r].body
              /\ table' = table
      ]_vars

\* A create with body id 1 has failed while row 1 is stored.
C3_Witness ==
    \E r \in Reqs :
        /\ sess[r].op = "create" /\ sess[r].pc = "raised"
        /\ RowsWithId(table, sess[r].body.id) # {}
        /\ ToRow(sess[r].body) \notin table

-----------------------------------------------------------------------------
(* C4 *)

\* The row carries the body's name, description, price and quantity.
SameData(row, product) ==
    /\ row.name = product.name
    /\ row.description = product.description
    /\ row.price = product.price
    /\ row.quantity = product.quantity

\* The rows of t with an id other than id.
OtherRows(t, id) == {x \in t : x.id # id}

\* The row the update loaded is still the stored row: no other request has
\* written it since the lookup.
Undisturbed(r) == FindById(table, sess[r].id) = sess[r].loaded

\* C4: the commit of an update whose id has a row returns the success string
\* with that id and the body's name and leaves every row of another id
\* unchanged; when no other request has written the row since the lookup,
\* the row then carries the body's name, description, price and quantity; a
\* get-by-id returns the row stored under its id, so issued next it returns
\* those values.
C4_UpdateThenGet ==
    [][ /\ \A r \in Reqs :
              (UpdateCommitStep(r) /\ RowsWithId(table, sess[r].id) # {}) =>
                  /\ sess'[r].pc = "returned"
                  /\ sess'[r].result = UpdateOk(sess[r].id, sess[r].body.name)
                  /\ RowsWithId(table', sess[r].id) # {}
                  /\ OtherRows(table', sess[r].id) = OtherRows(table, sess[r].id)
        /\ \A r \in Reqs :
              (UpdateCommitStep(r) /\ Undisturbed(r)) =>
                  \A x \in RowsWithId(table', sess[r].id) : SameData(x, sess[r].body)
        /\ \A r \in Reqs :
              (GetStep(r) /\ RowsWithId(table, sess'[r].id) # {}) =>
                  sess'[r].result \in RowsWithId(table, sess'[r].id)
      ]_vars

\* An update of id 1 has returned its success string, row 1 carries the
\* body's four values, and a get-by-id of 1 has returned that row.
C4_Witness ==
    \E u, g \in Reqs :
        /\ sess[u].op = "update" /\ sess[u].pc = "returned"
        /\ sess[u].result = UpdateOk(sess[u].id, sess[u].body.name)
        /\ sess[u].loaded.name # sess[u].body.name
        /\ sess[g].op = "get" /\ sess[g].pc = "returned" /\ sess[g].id = sess[u].id
        /\ sess[g].result \in table
        /\ SameData(sess[g].result, sess[u].body)

-----------------------------------------------------------------------------
(* C5 *)

-----------------------------------------------------------------------------
(* C6 *)

\* C6: the commit of a delete whose id has a row returns the success string
\* with the id and removes that row and no other; while the id has no row, a
\* get-by-id returns its not-found string, and a delete returns its
\* not-found string, raises nothing and leaves the table as it is.
C6_DeleteThenNotFound ==
    [][ /\ \A r \in Reqs :
              (DeleteCommitStep(r) /\ RowsWithId(table, sess[r].id) # {}) =>
                  /\ sess'[r].pc = "returned"
                  /\ sess'[r].result = DeleteOk(sess[r].id)
                  /\ sess'[r].result.id = sess[r].id
                  /\ RowsWithId(table', sess[r].id) = {}
                  /\ OtherRows(table', sess[r].id) = OtherRows(table, sess[r].id)
        /\ \A r \in Reqs :
              (GetStep(r) /\ RowsWithId(table, sess'[r].id) = {}) =>
                  sess'[r].result = GetNotFound(sess'[r].id)
        /\ \A r \in Reqs :
              (DeleteLookupStep(r) /\ RowsWithId(table, sess'[r].id) = {}) =>
                  /\ sess'[r].pc = "returned"
                  /\ sess'[r].result = DeleteNotFound(sess'[r].id)
                  /\ table' = table
      ]_vars

\* A delete of a seeded id has succeeded, the row is gone, and a second
\* delete of the same id has returned the not-found string.
C6_Witness ==
    \E a, b \in Reqs :
        /\ sess[a].op = "delete" /\ sess[a].result = DeleteOk(sess[a].id)
        /\ sess[a].loaded \in SeedRows
        /\ RowsWithId(table, sess[a].id) = {}
        /\ sess[b].op = "delete" /\ sess[b].pc = "returned"
        /\ sess[b].result = DeleteNotFound(sess[a].id)

-----------------------------------------------------------------------------
(* C7 *)

\* C7: for an id that has no row, get-by-id, update and delete each return
\* at once, with their own not-found string carrying that id, and leave the
\* table unchanged; list and get-by-id leave the table unchanged always.
C7_NotFoundAndReadOnly ==
    [][ /\ \A r \in Reqs :
              \/ RowsWithId(table, sess'[r].id) # {}
              \/ /\ GetStep(r) =>
                       /\ sess'[r].result =
                             [msg |-> "Product with id {id} not found", id |-> sess'[r].id]
                       /\ table' = table
                 /\ UpdateLookupStep(r) =>
                       /\ sess'[r].pc = "returned"
                       /\ sess'[r].result =
                             [msg |-> "No product with id {id} found", id |-> sess'[r].id]
                       /\ table' = table
                 /\ DeleteLookupStep(r) =>
                       /\ sess'[r].pc = "returned"
                       /\ sess'[r].result =
                             [msg |-> "Product Not found, please check the {id} again",
                              id |-> sess'[r].id]
                       /\ table' = table
        /\ \A r \in Reqs : (ListStep(r) \/ GetStep(r)) => table' = table
      ]_vars

\* With no row of id 2 stored, a get-by-id and an update of id 2 have both
\* returned their not-found strings.
C7_Witness ==
    \E a, b \in Reqs :
        /\ RowsWithId(table, sess[a].id) = {} /\ sess[a].id = sess[b].id
        /\ table # {}
        /\ sess[a].op = "get" /\ sess[a].result = GetNotFound(sess[a].id)
        /\ sess[b].op = "update" /\ sess[b].result = UpdateNotFound(sess[b].id)

-----------------------------------------------------------------------------
(* C8 *)

\* C8: a create whose body id has no row returns the body and adds exactly
\* one row, the body's five fields, whatever the path id is; a listing
\* returns all the stored rows, that row among them.
C8_CreateStoresBody ==
    [][ /\ \A r \in Reqs :
              (CreateStep(r) /\ RowsWithId(table, sess'[r].body.id) = {}) =>
                  /\ sess'[r].pc = "returned"
                  /\ sess'[r].result = sess'[r].body
                  /\ table' = table \cup {ToRow(sess'[r].body)}
                  /\ Cardinality(table') = Cardinality(table) + 1
                  /\ \A x \in table' \ table :
                        x.id = sess'[r].body.id /\ SameData(x, sess'[r].body)
        /\ \A r \in Reqs : ListStep(r) => sess'[r].result = table
      ]_vars

\* A create with path id 1 and body id 2 has returned the body, the row is
\* stored under id 2, and a listing has returned it.
C8_Witness ==
    \E c, l \in Reqs :
        /\ sess[c].op = "create" /\ sess[c].pc = "returned"
        /\ sess[c].id # sess[c].body.id
        /\ sess[c].result = sess[c].body
        /\ ToRow(sess[c].body) \in table
        /\ sess[l].op = "list" /\ sess[l].pc = "returned"
        /\ ToRow(sess[c].body) \in sess[l].result

-----------------------------------------------------------------------------
(* C9 *)

\* C9: when an update commits while another update of the same id, which
\* found the row too, has already returned its success string, the later
\* commit also returns the success string and the row then stored carries the
\* later update's name, description, price and quantity (last write wins,
\* never a mix of the two bodies).
C9_LastWriteWins ==
    [][ \A a, b \in Reqs :
          ( /\ a # b
            /\ UpdateCommitStep(b)
            /\ sess[a].op = "update" /\ sess[a].pc = "returned"
            /\ sess[a].loaded # None
            /\ sess[a].id = sess[b].id ) =>
              /\ sess'[b].result = UpdateOk(sess[b].id, sess[b].body.name)
              /\ RowsWithId(table', sess[b].id) # {}
              /\ \A x \in RowsWithId(table', sess[b].id) : SameData(x, sess[b].body)
      ]_vars

-----------------------------------------------------------------------------
(* C10 *)

\* C10: a request that is running (it has looked its row up, returned or
\* raised and not yet ended) holds an open session, one per slot; once the
\* request has ended, after a return or after a raise, its session is closed.
C10_SessionClosed ==
    \A r \in Reqs :
        /\ sess[r].pc \in {"found", "returned", "raised"} => sess[r].open
        /\ sess[r].pc \in {"idle", "finished"} => ~sess[r].open

\* A create that raised the duplicate-key error has ended with its session
\* closed, while another request has ended after a return.
C10_Witness ==
    \E a, b \in Reqs :
        /\ sess[a].op = "create" /\ sess[a].pc = "finished"
        /\ sess[a].exit = "raised" /\ ~sess[a].open
        /\ sess[b].pc = "finished" /\ sess[b].exit = "returned" /\ ~sess[b].open

-----------------------------------------------------------------------------
(* C11 *)

\* A storage failure strikes init_db: control enters the except clause.
InitFailStep == boot.pc # "except" /\ boot'.pc = "except"

\* C11 as claimed: whatever step of init_db the storage failure strikes (the
\* count, an add, the flush or the COMMIT), the table is left without any row
\* added by that run.
C11_NoneAdded ==
    [][ InitFailStep => table' = table ]_vars

\* C11 (amended): a storage failure in init_db is caught: the except clause
\* rolls the transaction back, the finally clause closes the session and
\* init_db ends without raising; a failure of the count, of an add or of an
\* INSERT leaves the table as it was, and every step of init_db adds either
\* nothing or the three seed rows together (all three only by the COMMIT,
\* also when the COMMIT is applied but its acknowledgement is lost): never a
\* partial subset.
C11_AllOrNothing ==
    [][ /\ boot.pc # "done" =>
              /\ table \subseteq table'
              /\ table' \ table \in {{}, SeedRows}
              /\ table' # table => boot.pc = "commit"
        /\ InitFailStep =>
              \/ table' = table
              \/ boot.pc = "commit" /\ table' \ table = SeedRows
        /\ boot.pc = "except" =>
              /\ boot'.pc = "finally"
              /\ boot'.flushed = {}
              /\ table' = table
        /\ boot.pc = "finally" =>
              /\ boot'.pc = "done"
              /\ ~boot'.open
              /\ table' = table
      ]_vars

\* init_db has ended, its session closed, after a failure that struck once
\* the three rows were added to the session: the table holds none of them.
C11_Witness ==
    /\ boot.pc = "done" /\ ~boot.open
    /\ Len(boot.added) = Len(sample_products)
    /\ boot.flushed = {}
    /\ table = {}

=============================================================================
